---- MODULE Spec2Model ----
(***************************************************************************)
(* Model of uberpy's client facade, class Uber (src/uberpy/uber.py).       *)
(*                                                                         *)
(* The object under study is one Uber instance.  Its state is the four     *)
(* instance attributes set by __init__.  Every method assembles a          *)
(* query_parameters dict and hands it to the base class Api: get_json for  *)
(* the calls that contact the service, build_request for the authorize     *)
(* URL.  The base class lives in api.py, which is not part of src/; its    *)
(* three entry points (Api.__init__, Api.get_json, Api.build_request) are  *)
(* modelled from spec.md and are marked as such where they are defined.    *)
(*                                                                         *)
(* What a method call did is recorded in the variables op, argv, sent,     *)
(* built, transport, ret and raised, which describe the LAST call only:    *)
(* the facade keeps no history, and neither does the model.                *)
(***************************************************************************)
EXTENDS Integers, Sequences, FiniteSets, TLC

\* Longest scopes list handed to get_authorize_url.
MaxScopes == 2

----------------------------------------------------------------------------
(* Python values *)

\* Python's None.
None == "<None>"
\* A required positional argument that the caller did not pass at all.
Absent == "<absent>"
\* An instance attribute that has not been assigned yet.
Unset == "<unset>"

\* Input domains of the calls.
Coords == {37, -122}
ClientIds == {"cidA", "cidB", None, Absent}
ServerTokens == {"stok", None, Absent}
Secrets == {"sec", None, Absent}
RedirectUris == {"https://app/cb", None, Absent}
CustomerIds == {"cust1", None}
ProductIds == {"prodX", None}
Codes == {"abc123", "zzz"}
Tokens == {"tokR", "tokS"}
ScopeNames == {"profile", "history"}
StateNonces == {"nonce1", None}
ResponseTypes == {"code", "token"}

\* All lists of scope names of length 0..MaxScopes.
ScopeLists == UNION {[1..n -> ScopeNames] : n \in 0..MaxScopes}

\* What the service can answer to one request: a decoded JSON value, or one
\* of the three failures of spec.md section 7.
TransportFailures == {"TransportError", "HttpStatusError", "DecodeError"}
TransportOutcomes ==
    {[kind |-> "ok", value |-> "json"]}
        \cup {[kind |-> "error", error |-> e] : e \in TransportFailures}
\* The value of `transport` for a call that never reached the service.
NoTransport == [kind |-> "none"]

----------------------------------------------------------------------------
(* The base class Api (api.py, not under src/): modelled from spec.md *)

\* spec.md section 7: construction fails fast with ConfigurationError when a
\* required configuration field is missing.  Yields the exception raised,
\* or None.
Api__init__(client_id, server_token, secret, redirect_uri) ==
    IF None \in {client_id, server_token, secret, redirect_uri}
    THEN "ConfigurationError"
    ELSE None

\* spec.md sections 2, 6, 7: one request is handed to the transport; its
\* decoded result is returned, its failure is raised unchanged.
get_json(uri_path, http_method, query_parameters, body, headers, authorisation, t) ==
    [request |-> [endpoint |-> uri_path,
                  http_method |-> http_method,
                  query_parameters |-> query_parameters,
                  body |-> body,
                  headers |-> headers,
                  authorisation |-> authorisation],
     ret |-> IF t.kind = "ok" THEN t.value ELSE None,
     raised |-> IF t.kind = "error" THEN t.error ELSE None]

\* spec.md section 6: {base}/authorize?client_id=..&response_type=..
\* &scopes=..[&state=..].  Pure: no request is made.
AuthBase == "{base}"
build_request(path, query_parameters, authorisation) ==
    [request |-> [path |-> path,
                  query_parameters |-> query_parameters,
                  authorisation |-> authorisation],
     ret |-> AuthBase \o "/" \o path
               \o "?client_id=" \o query_parameters.client_id
               \o "&response_type=" \o query_parameters.response_type
               \o "&scopes=" \o query_parameters.scopes
               \o (IF "state" \in DOMAIN query_parameters
                   THEN "&state=" \o query_parameters.state
                   ELSE "")]

----------------------------------------------------------------------------
(* Helpers *)

\* ','.join(scopes)
RECURSIVE Join(_)
Join(scopes) ==
    IF Len(scopes) = 0 THEN ""
    ELSE IF Len(scopes) = 1 THEN scopes[1]
    ELSE scopes[1] \o "," \o Join(Tail(scopes))

\* The instance before __init__ has run.
NoSelf ==
    [client_id |-> Unset, server_token |-> Unset,
     secret |-> Unset, redirect_uri |-> Unset]

\* `return self.get_json(...)`: the method makes this one call and its
\* result, or the exception it raises, is the method's own.
ReturnGetJson(slf, g) ==
    [self |-> slf, sent |-> <<g.request>>, built |-> <<>>,
     ret |-> g.ret, raised |-> g.raised]

----------------------------------------------------------------------------
(* Class Uber *)

\* Uber.__init__.  A call that leaves out a required positional argument
\* never enters the body (TypeError); otherwise the four attributes are
\* assigned and Api.__init__ is called.
Uber__init__(client_id, server_token, secret, redirect_uri) ==
    IF Absent \in {client_id, server_token, secret, redirect_uri}
    THEN [self |-> NoSelf, raised |-> "TypeError"]
    ELSE [self |-> [client_id |-> client_id, server_token |-> server_token,
                    secret |-> secret, redirect_uri |-> redirect_uri],
          raised |-> Api__init__(client_id, server_token, secret, redirect_uri)]


\* get_products with the two coordinates bound to each other's key.
get_products_swapped(slf, latitude, longitude, t) ==
    LET query_parameters == [latitude |-> longitude, longitude |-> latitude]
    IN  ReturnGetJson(slf, get_json("products", "GET", query_parameters,
                                    None, None, FALSE, t))

\* Uber.get_products
get_products(slf, latitude, longitude, t) ==
    LET query_parameters == [latitude |-> latitude, longitude |-> longitude]
    IN  ReturnGetJson(slf, get_json("products", "GET", query_parameters,
                                    None, None, FALSE, t))

\* get_price_estimate that swallows a failure of get_json and hands back
\* None in its place.
get_price_estimate_swallow(slf, start_latitude, start_longitude, end_latitude, end_longitude, t) ==
    LET query_parameters ==
            [start_latitude |-> start_latitude,
             start_longitude |-> start_longitude,
             end_latitude |-> end_latitude,
             end_longitude |-> end_longitude]
        r == ReturnGetJson(slf, get_json("estimates/price", "GET",
                                         query_parameters, None, None, FALSE, t))
    IN  [r EXCEPT !.raised = None]

\* Uber.get_price_estimate
get_price_estimate(slf, start_latitude, start_longitude, end_latitude, end_longitude, t) ==
    LET query_parameters ==
            [start_latitude |-> start_latitude,
             start_longitude |-> start_longitude,
             end_latitude |-> end_latitude,
             end_longitude |-> end_longitude]
    IN  ReturnGetJson(slf, get_json("estimates/price", "GET",
                                    query_parameters, None, None, FALSE, t))

\* get_time_estimate with the second test written as a plain `else`.
get_time_estimate_else(slf, start_latitude, start_longitude, customer_uuid, product_id, t) ==
    LET base == [start_latitude |-> start_latitude,
                 start_longitude |-> start_longitude]
        query_parameters ==
            IF customer_uuid # None
            THEN ("customer_uuid" :> customer_uuid) @@ base
            ELSE ("product_id" :> product_id) @@ base
    IN  ReturnGetJson(slf, get_json("estimates/time", "GET", query_parameters,
                                    None, None, FALSE, t))

\* Uber.get_time_estimate.  The if / elif / elif chain of lines 79-85: the
\* first test that succeeds decides, so the third branch is taken only when
\* the first two fail.
get_time_estimate(slf, start_latitude, start_longitude, customer_uuid, product_id, t) ==
    LET base == [start_latitude |-> start_latitude,
                 start_longitude |-> start_longitude]
        query_parameters ==
            IF customer_uuid # None
            THEN ("customer_uuid" :> customer_uuid) @@ base
            ELSE IF product_id # None
            THEN ("product_id" :> product_id) @@ base
            ELSE IF customer_uuid # None /\ product_id # None
            THEN ("product_id" :> product_id)
                     @@ ("customer_uuid" :> customer_uuid) @@ base
            ELSE base
    IN  ReturnGetJson(slf, get_json("estimates/time", "GET", query_parameters,
                                    None, None, FALSE, t))

\* Uber.get_promotions
get_promotions(slf, start_latitude, start_longitude, end_latitude, end_longitude, t) ==
    LET query_parameters ==
            [start_latitude |-> start_latitude,
             start_longitude |-> start_longitude,
             end_latitude |-> end_latitude,
             end_longitude |-> end_longitude]
    IN  ReturnGetJson(slf, get_json("promotions", "GET", query_parameters,
                                    None, None, FALSE, t))

\* get_authorize_url that goes through get_json like its neighbours.
get_authorize_url_get_json(slf, scopes, state, response_type) ==
    LET query_parameters ==
            [client_id |-> slf.client_id,
             response_type |-> response_type,
             scopes |-> Join(scopes)]
    IN  ReturnGetJson(slf, get_json("authorize", "GET", query_parameters,
                                    None, None, TRUE,
                                    [kind |-> "ok", value |-> "json"]))

\* Uber.get_authorize_url.  `state` is a parameter of the method; the body
\* never reads it.
get_authorize_url(slf, scopes, state, response_type) ==
    LET query_parameters ==
            [client_id |-> slf.client_id,
             response_type |-> response_type,
             scopes |-> Join(scopes)]
        b == build_request("authorize", query_parameters, TRUE)
    IN  [self |-> slf, sent |-> <<>>, built |-> <<b.request>>,
         ret |-> b.ret, raised |-> None]

\* get_access_token that forgets authorisation=True.
get_access_token_noauth(slf, code, t) ==
    LET query_parameters ==
            [client_id |-> slf.client_id,
             client_secret |-> slf.secret,
             grant_type |-> "authorization_code",
             redirect_uri |-> slf.redirect_uri,
             code |-> code]
    IN  ReturnGetJson(slf, get_json("token", "POST", query_parameters,
                                    None, None, FALSE, t))

\* Uber.get_access_token
get_access_token(slf, code, t) ==
    LET query_parameters ==
            [client_id |-> slf.client_id,
             client_secret |-> slf.secret,
             grant_type |-> "authorization_code",
             redirect_uri |-> slf.redirect_uri,
             code |-> code]
    IN  ReturnGetJson(slf, get_json("token", "POST", query_parameters,
                                    None, None, TRUE, t))

\* refresh_token with a grant type of its own.
refresh_token_own_grant(slf, refresh_token_arg, t) ==
    LET query_parameters ==
            [client_id |-> slf.client_id,
             client_secret |-> slf.secret,
             grant_type |-> "refresh_token",
             redirect_uri |-> slf.redirect_uri,
             refresh_token |-> refresh_token_arg]
    IN  ReturnGetJson(slf, get_json("token", "POST", query_parameters,
                                    None, None, TRUE, t))

\* Uber.refresh_token
refresh_token(slf, refresh_token_arg, t) ==
    LET query_parameters ==
            [client_id |-> slf.client_id,
             client_secret |-> slf.secret,
             grant_type |-> "authorization_code",
             redirect_uri |-> slf.redirect_uri,
             refresh_token |-> refresh_token_arg]
    IN  ReturnGetJson(slf, get_json("token", "POST", query_parameters,
                                    None, None, TRUE, t))

\* revoke_token that forgets the secret it has just revoked with.
revoke_token_forget(slf, token, t) ==
    LET query_parameters ==
            [client_id |-> slf.client_id,
             client_secret |-> slf.secret,
             token |-> token]
        r == ReturnGetJson(slf, get_json("revoke", "POST", query_parameters,
                                         None, None, TRUE, t))
    IN  [r EXCEPT !.self.secret = None]

\* Uber.revoke_token
revoke_token(slf, token, t) ==
    LET query_parameters ==
            [client_id |-> slf.client_id,
             client_secret |-> slf.secret,
             token |-> token]
    IN  ReturnGetJson(slf, get_json("revoke", "POST", query_parameters,
                                    None, None, TRUE, t))

----------------------------------------------------------------------------
(* The state machine: one Uber object and the last call made on it *)

VARIABLES
    pc,         \* "new": not constructed; "ready": constructed; "failed": __init__ raised
    ctor,       \* the arguments given to the constructor
    self,       \* the instance attributes
    op,         \* name of the last method called
    argv,       \* its arguments
    transport,  \* what the service answered during it
    sent,       \* the get_json calls it made
    built,      \* the build_request calls it made
    ret,        \* its return value
    raised      \* the exception it raised, or None

vars == <<pc, ctor, self, op, argv, transport, sent, built, ret, raised>>

Init ==
    /\ pc = "new"
    /\ ctor = NoSelf
    /\ self = NoSelf
    /\ op = None
    /\ argv = <<>>
    /\ transport = NoTransport
    /\ sent = <<>>
    /\ built = <<>>
    /\ ret = None
    /\ raised = None

\* Uber(client_id, server_token, secret, redirect_uri)
Construct ==
    /\ pc = "new"
    /\ \E client_id \in ClientIds, server_token \in ServerTokens,
          secret \in Secrets, redirect_uri \in RedirectUris :
         LET r == Uber__init__(client_id, server_token, secret, redirect_uri)
         IN  /\ ctor' = [client_id |-> client_id, server_token |-> server_token,
                         secret |-> secret, redirect_uri |-> redirect_uri]
             /\ self' = r.self
             /\ raised' = r.raised
             /\ pc' = IF r.raised = None THEN "ready" ELSE "failed"
    /\ op' = "__init__"
    /\ UNCHANGED <<argv, transport, sent, built, ret>>

\* The effect of a method call with result r on the record of the last call.
Called(name, a, t, r) ==
    /\ pc = "ready"
    /\ op' = name
    /\ argv' = a
    /\ transport' = t
    /\ self' = r.self
    /\ sent' = r.sent
    /\ built' = r.built
    /\ ret' = r.ret
    /\ raised' = r.raised
    /\ UNCHANGED <<pc, ctor>>

GetProducts ==
    \E latitude \in Coords, longitude \in Coords, t \in TransportOutcomes :
        Called("get_products",
               [latitude |-> latitude, longitude |-> longitude], t,
               get_products(self, latitude, longitude, t))

GetPriceEstimate ==
    \E slat \in Coords, slng \in Coords, elat \in Coords, elng \in Coords,
       t \in TransportOutcomes :
        Called("get_price_estimate",
               [start_latitude |-> slat, start_longitude |-> slng,
                end_latitude |-> elat, end_longitude |-> elng], t,
               get_price_estimate(self, slat, slng, elat, elng, t))

GetTimeEstimate ==
    \E slat \in Coords, slng \in Coords, customer_uuid \in CustomerIds,
       product_id \in ProductIds, t \in TransportOutcomes :
        Called("get_time_estimate",
               [start_latitude |-> slat, start_longitude |-> slng,
                customer_uuid |-> customer_uuid, product_id |-> product_id], t,
               get_time_estimate(self, slat, slng, customer_uuid, product_id, t))

GetPromotions ==
    \E slat \in Coords, slng \in Coords, elat \in Coords, elng \in Coords,
       t \in TransportOutcomes :
        Called("get_promotions",
               [start_latitude |-> slat, start_longitude |-> slng,
                end_latitude |-> elat, end_longitude |-> elng], t,
               get_promotions(self, slat, slng, elat, elng, t))

GetAuthorizeUrl ==
    \E scopes \in ScopeLists, state \in StateNonces,
       response_type \in ResponseTypes :
        Called("get_authorize_url",
               [scopes |-> scopes, state |-> state,
                response_type |-> response_type], NoTransport,
               get_authorize_url(self, scopes, state, response_type))

GetAccessToken ==
    \E code \in Codes, t \in TransportOutcomes :
        Called("get_access_token", [code |-> code], t,
               get_access_token(self, code, t))

RefreshToken ==
    \E r \in Tokens, t \in TransportOutcomes :
        Called("refresh_token", [refresh_token |-> r], t,
               refresh_token(self, r, t))

RevokeToken ==
    \E token \in Tokens, t \in TransportOutcomes :
        Called("revoke_token", [token |-> token], t,
               revoke_token(self, token, t))

Next ==
    \/ Construct
    \/ GetProducts
    \/ GetPriceEstimate
    \/ GetTimeEstimate
    \/ GetPromotions
    \/ GetAuthorizeUrl
    \/ GetAccessToken
    \/ RefreshToken
    \/ RevokeToken

Spec == Init /\ [][Next]_vars

----------------------------------------------------------------------------
(* Properties *)

\* The methods that contact the service.
TransportOps ==
    {"get_products", "get_price_estimate", "get_time_estimate",
     "get_promotions", "get_access_token", "refresh_token", "revoke_token"}

\* The query parameters of the one get_json call of the last method call.
SentParams == sent[1].query_parameters
\* The query parameters of its one build_request call.
BuiltParams == built[1].query_parameters

\* C1: after get_time_estimate with both customer_uuid and product_id
\* supplied, the query parameters handed on contain both keys, each with the
\* supplied value.
C1_BothIncluded ==
    (op = "get_time_estimate" /\ argv.customer_uuid # None
                              /\ argv.product_id # None)
        => /\ Len(sent) = 1
           /\ "customer_uuid" \in DOMAIN SentParams
           /\ "product_id" \in DOMAIN SentParams
           /\ SentParams["customer_uuid"] = argv.customer_uuid
           /\ SentParams["product_id"] = argv.product_id

\* C2: after get_authorize_url with a state supplied, the parameters the
\* URL is built from contain a state entry equal to the supplied value,
\* beside client_id, response_type and scopes.
C2_StateEmbedded ==
    (op = "get_authorize_url" /\ argv.state # None)
        => /\ Len(built) = 1
           /\ {"client_id", "response_type", "scopes"} \subseteq DOMAIN BuiltParams
           /\ "state" \in DOMAIN BuiltParams
           /\ BuiltParams["state"] = argv.state

\* C3: on a constructed client, whatever methods have been called, each of
\* the four configuration attributes equals the constructor's argument.
C3_ConfigNeverChanges ==
    pc = "ready"
        => /\ self.client_id = ctor.client_id
           /\ self.server_token = ctor.server_token
           /\ self.secret = ctor.secret
           /\ self.redirect_uri = ctor.redirect_uri
           /\ DOMAIN self = DOMAIN ctor

C3_Witness ==
    /\ pc = "ready"
    /\ op = "revoke_token"
    /\ self.secret = "sec"
    /\ self.client_id = "cidB"

\* C4: refresh_token(r) makes exactly one call, a POST to "token" with the
\* authorization flag set, whose parameters are exactly client_id,
\* client_secret and redirect_uri of the configuration, refresh_token = r and
\* the grant_type that get_access_token sends, "authorization_code"; there
\* is no code parameter.
C4_RefreshTokenRequest ==
    op = "refresh_token"
        => /\ Len(sent) = 1
           /\ built = <<>>
           /\ sent[1].endpoint = "token"
           /\ sent[1].http_method = "POST"
           /\ sent[1].authorisation = TRUE
           /\ DOMAIN SentParams = {"client_id", "client_secret", "grant_type",
                                   "redirect_uri", "refresh_token"}
           /\ SentParams.client_id = ctor.client_id
           /\ SentParams.client_secret = ctor.secret
           /\ SentParams.redirect_uri = ctor.redirect_uri
           /\ SentParams.refresh_token = argv.refresh_token
           /\ SentParams.grant_type = "authorization_code"
           /\ \A code \in Codes, t \in TransportOutcomes :
                get_access_token(self, code, t).sent[1].query_parameters.grant_type
                    = SentParams.grant_type

C4_Witness ==
    /\ op = "refresh_token"
    /\ argv.refresh_token = "tokR"
    /\ Len(sent) = 1
    /\ SentParams.refresh_token = "tokR"

\* C5: get_time_estimate with exactly one of the two optional arguments
\* supplied hands on that one and not the other; with neither supplied the
\* parameters are exactly start_latitude and start_longitude.
C5_OneOptionalOnly ==
    op = "get_time_estimate"
        => /\ Len(sent) = 1
           /\ sent[1].endpoint = "estimates/time"
           /\ sent[1].http_method = "GET"
           /\ SentParams.start_latitude = argv.start_latitude
           /\ SentParams.start_longitude = argv.start_longitude
           /\ (argv.customer_uuid # None /\ argv.product_id = None)
                => /\ DOMAIN SentParams = {"start_latitude", "start_longitude",
                                           "customer_uuid"}
                   /\ SentParams["customer_uuid"] = argv.customer_uuid
           /\ (argv.customer_uuid = None /\ argv.product_id # None)
                => /\ DOMAIN SentParams = {"start_latitude", "start_longitude",
                                           "product_id"}
                   /\ SentParams["product_id"] = argv.product_id
           /\ (argv.customer_uuid = None /\ argv.product_id = None)
                => DOMAIN SentParams = {"start_latitude", "start_longitude"}

C5_Witness ==
    /\ op = "get_time_estimate"
    /\ argv.customer_uuid = None
    /\ argv.product_id = "prodX"
    /\ "product_id" \in DOMAIN SentParams
    /\ "customer_uuid" \notin DOMAIN SentParams

\* C6: get_access_token(code) makes exactly one call, a POST to "token" with
\* the authorization flag set, whose parameters hold
\* grant_type = "authorization_code", code = the argument, and client_id,
\* client_secret and redirect_uri of the configuration.
C6_AccessTokenRequest ==
    op = "get_access_token"
        => /\ Len(sent) = 1
           /\ built = <<>>
           /\ sent[1].endpoint = "token"
           /\ sent[1].http_method = "POST"
           /\ sent[1].authorisation = TRUE
           /\ DOMAIN SentParams = {"client_id", "client_secret", "grant_type",
                                   "redirect_uri", "code"}
           /\ SentParams.grant_type = "authorization_code"
           /\ SentParams.code = argv.code
           /\ SentParams.client_id = ctor.client_id
           /\ SentParams.client_secret = ctor.secret
           /\ SentParams.redirect_uri = ctor.redirect_uri

C6_Witness ==
    /\ op = "get_access_token"
    /\ argv.code = "abc123"
    /\ Len(sent) = 1
    /\ SentParams.code = "abc123"
    /\ SentParams.grant_type = "authorization_code"

\* The comma-joined text of the scope lists of up to two names, written out.
JoinedByHand(scopes) ==
    CASE Len(scopes) = 0 -> ""
      [] Len(scopes) = 1 /\ scopes[1] = "profile" -> "profile"
      [] Len(scopes) = 1 /\ scopes[1] = "history" -> "history"
      [] scopes = <<"profile", "history">> -> "profile,history"
      [] scopes = <<"history", "profile">> -> "history,profile"
      [] scopes = <<"profile", "profile">> -> "profile,profile"
      [] scopes = <<"history", "history">> -> "history,history"

\* C7: get_authorize_url with state omitted makes no get_json call; the
\* parameters it builds the URL from are exactly scopes (the given scopes
\* joined by commas, in the order given), client_id of the configuration and
\* the given response_type: there is no state entry.
C7_AuthorizeUrlNoState ==
    (op = "get_authorize_url" /\ argv.state = None)
        => /\ sent = <<>>
           /\ transport = NoTransport
           /\ raised = None
           /\ Len(built) = 1
           /\ built[1].path = "authorize"
           /\ DOMAIN BuiltParams = {"client_id", "response_type", "scopes"}
           /\ BuiltParams.client_id = ctor.client_id
           /\ BuiltParams.response_type = argv.response_type
           /\ Len(argv.scopes) <= 2
                => BuiltParams.scopes = JoinedByHand(argv.scopes)
           /\ Len(argv.scopes) > 0
                => \E rest \in ScopeLists :
                      /\ Len(rest) = Len(argv.scopes) - 1
                      /\ \A i \in 1..Len(rest) : rest[i] = argv.scopes[i + 1]
                      /\ BuiltParams.scopes
                           = IF Len(rest) = 0 THEN argv.scopes[1]
                             ELSE argv.scopes[1] \o "," \o Join(rest)

C7_Witness ==
    /\ op = "get_authorize_url"
    /\ argv.state = None
    /\ argv.scopes = <<"profile", "history">>
    /\ argv.response_type = "code"
    /\ sent = <<>>
    /\ BuiltParams.scopes = "profile,history"
    /\ ret = "{base}/authorize?client_id=cidA&response_type=code&scopes=profile,history"

\* C8: get_products makes exactly one call, a GET to "products", whose
\* parameters are exactly latitude and longitude, bound to the arguments.
C8_ProductsRequest ==
    op = "get_products"
        => /\ Len(sent) = 1
           /\ built = <<>>
           /\ sent[1].endpoint = "products"
           /\ sent[1].http_method = "GET"
           /\ DOMAIN SentParams = {"latitude", "longitude"}
           /\ SentParams.latitude = argv.latitude
           /\ SentParams.longitude = argv.longitude

C8_Witness ==
    /\ op = "get_products"
    /\ argv.latitude = 37
    /\ argv.longitude = -122
    /\ Len(sent) = 1
    /\ SentParams.latitude = 37
    /\ SentParams.longitude = -122

\* The constructor arguments that are missing: None, or not passed.
MissingFields ==
    {f \in DOMAIN ctor : ctor[f] \in {None, Absent}}

\* C9: a construction with a required configuration field missing fails
\* with ConfigurationError, and no method call and no request is ever made
\* on that client.
C9_ConfigurationError ==
    (pc # "new" /\ MissingFields # {})
        => /\ pc = "failed"
           /\ raised = "ConfigurationError"
           /\ op = "__init__"
           /\ sent = <<>>
           /\ built = <<>>

\* C10: when the service fails during a method that contacts it, the method
\* raises that same failure and returns nothing, exactly one call was made,
\* and the client is left as it was before the call.
C10_FailurePropagates ==
    [][(op' \in TransportOps /\ transport'.kind = "error")
          => /\ raised' = transport'.error
             /\ ret' = None
             /\ Len(sent') = 1
             /\ built' = <<>>
             /\ self' = self
             /\ pc' = pc
             /\ ctor' = ctor]_vars

C10_Witness ==
    /\ op = "get_price_estimate"
    /\ transport = [kind |-> "error", error |-> "HttpStatusError"]
    /\ raised = "HttpStatusError"
    /\ Len(sent) = 1

====
